---- MODULE Spec2Model ----
(***************************************************************************)
(* Semantics Description Generation pipeline                               *)
(* (wren-ai-service/src/pipelines/generation/semantics_description.py).    *)
(*                                                                         *)
(* Texts are sequences of lexical atoms: every structural character,       *)
(* quote and whitespace character is an atom of its own, and a maximal run *)
(* of other characters (a word such as models or orders) is one atom.      *)
(***************************************************************************)
EXTENDS Integers, Sequences, FiniteSets, TLC

\* ------------------------------------------------------------------------
\* Bounds of the model
\* ------------------------------------------------------------------------
NumInv == 2
MaxModels == 2
MaxReplies == 2
MaxSchema == 3
MaxSel == 2

Inv == 1..NumInv

\* ------------------------------------------------------------------------
\* Texts
\* ------------------------------------------------------------------------
QUOTE == "\""
\* Characters str.split() treats as separators.
PyWhitespace == {" ", "\n", "\t"}
\* Whitespace a JSON document allows between its tokens.
JsonWhitespace == {" ", "\n", "\t"}
\* Raw control characters, which a JSON string may not hold unescaped.
ControlChars == {"\n", "\t"}

\* ------------------------------------------------------------------------
\* Python / JSON values.  Every value is a record of one shape:
\*   t     : "str" | "num" | "null" | "arr" | "obj"
\*   s     : the atoms of a string (or the one atom of a number)
\*   keys  : the keys of an object, in insertion order (each a string's atoms)
\*   items : the elements of an array, or the values of an object's keys
\* ------------------------------------------------------------------------
Str(s) == [t |-> "str", s |-> s, keys |-> <<>>, items |-> <<>>]
Num(a) == [t |-> "num", s |-> <<a>>, keys |-> <<>>, items |-> <<>>]
Null == [t |-> "null", s |-> <<>>, keys |-> <<>>, items |-> <<>>]
Arr(items) == [t |-> "arr", s |-> <<>>, keys |-> <<>>, items |-> items]
Obj(keys, items) == [t |-> "obj", s |-> <<>>, keys |-> keys, items |-> items]
EmptyDict == Obj(<<>>, <<>>)

NumberAtoms == {"1"}

HasKey(d, k) == \E n \in 1..Len(d.keys) : d.keys[n] = k
DictGet(d, k) == d.items[CHOOSE n \in 1..Len(d.keys) : d.keys[n] = k]
\* d[k] = v: a key already present keeps its position and takes the new value.
DictSet(d, k, v) ==
    IF HasKey(d, k)
    THEN Obj(d.keys, [n \in 1..Len(d.items) |-> IF d.keys[n] = k THEN v ELSE d.items[n]])
    ELSE Obj(Append(d.keys, k), Append(d.items, v))

\* ------------------------------------------------------------------------
\* orjson.loads
\* ------------------------------------------------------------------------
ParseFail == [ok |-> FALSE, val |-> Null, pos |-> 0]
ParseOk(v, p) == [ok |-> TRUE, val |-> v, pos |-> p]

RECURSIVE SkipWs(_, _)
SkipWs(text, i) ==
    IF i <= Len(text) /\ text[i] \in JsonWhitespace THEN SkipWs(text, i + 1) ELSE i

\* Position of the first quote at or after i, Len(text) + 1 if there is none.
RECURSIVE FindQuote(_, _)
FindQuote(text, i) ==
    IF i <= Len(text) /\ text[i] # QUOTE THEN FindQuote(text, i + 1) ELSE i

\* text[i] is an opening quote.
ParseString(text, i) ==
    LET j == FindQuote(text, i + 1)
        body == SubSeq(text, i + 1, j - 1)
    IN  IF j > Len(text) \/ (\E n \in 1..Len(body) : body[n] \in ControlChars)
        THEN ParseFail
        ELSE ParseOk(Str(body), j + 1)

RECURSIVE ParseValue(_, _)
RECURSIVE ParseMembers(_, _, _)
RECURSIVE ParseElements(_, _, _)

ParseValue(text, i) ==
    LET j == SkipWs(text, i)
    IN  IF j > Len(text) THEN ParseFail
        ELSE IF text[j] = QUOTE THEN ParseString(text, j)
        ELSE IF text[j] \in NumberAtoms THEN ParseOk(Num(text[j]), j + 1)
        ELSE IF text[j] = "null" THEN ParseOk(Null, j + 1)
        ELSE IF text[j] = "{" THEN
            LET k == SkipWs(text, j + 1)
            IN  IF k <= Len(text) /\ text[k] = "}"
                THEN ParseOk(EmptyDict, k + 1)
                ELSE ParseMembers(text, k, EmptyDict)
        ELSE IF text[j] = "[" THEN
            LET k == SkipWs(text, j + 1)
            IN  IF k <= Len(text) /\ text[k] = "]"
                THEN ParseOk(Arr(<<>>), k + 1)
                ELSE ParseElements(text, k, <<>>)
        ELSE ParseFail

\* Members of an object from position i on, up to and including the brace.
ParseMembers(text, i, acc) ==
    LET j == SkipWs(text, i)
    IN  IF j > Len(text) \/ text[j] # QUOTE THEN ParseFail
        ELSE LET key == ParseString(text, j)
                 c == SkipWs(text, key.pos)
             IN  IF ~key.ok \/ c > Len(text) \/ text[c] # ":" THEN ParseFail
                 ELSE LET v == ParseValue(text, c + 1)
                          e == SkipWs(text, v.pos)
                          d == DictSet(acc, key.val.s, v.val)
                      IN  IF ~v.ok \/ e > Len(text) THEN ParseFail
                          ELSE IF text[e] = "," THEN ParseMembers(text, e + 1, d)
                          ELSE IF text[e] = "}" THEN ParseOk(d, e + 1)
                          ELSE ParseFail

\* Elements of an array from position i on, up to and including the bracket.
ParseElements(text, i, acc) ==
    LET v == ParseValue(text, i)
        e == SkipWs(text, v.pos)
    IN  IF ~v.ok \/ e > Len(text) THEN ParseFail
        ELSE IF text[e] = "," THEN ParseElements(text, e + 1, Append(acc, v.val))
        ELSE IF text[e] = "]" THEN ParseOk(Arr(Append(acc, v.val)), e + 1)
        ELSE ParseFail

\* orjson.loads(text): one document, nothing but whitespace after it.
Loads(text) ==
    LET r == ParseValue(text, 1)
    IN  IF r.ok /\ SkipWs(text, r.pos) = Len(text) + 1
        THEN [ok |-> TRUE, val |-> r.val]
        ELSE [ok |-> FALSE, val |-> Null]

\* ------------------------------------------------------------------------
\* str.replace, str.split, str.join, str.strip
\* ------------------------------------------------------------------------
\* text.replace("\n", " ")
ReplaceNewlines(text) == [n \in 1..Len(text) |-> IF text[n] = "\n" THEN " " ELSE text[n]]

\* text.split(): the maximal runs of non-whitespace atoms, in order.
ChunkStarts(text) ==
    {n \in 1..Len(text) : text[n] \notin PyWhitespace
                          /\ (n = 1 \/ text[n - 1] \in PyWhitespace)}
ChunkEnd(text, from) ==
    CHOOSE m \in from..Len(text) :
        /\ \A n \in from..m : text[n] \notin PyWhitespace
        /\ (m = Len(text) \/ text[m + 1] \in PyWhitespace)
Split(text) ==
    LET starts == ChunkStarts(text)
        start(k) == CHOOSE n \in starts : Cardinality({m \in starts : m <= n}) = k
    IN  [k \in 1..Cardinality(starts) |-> SubSeq(text, start(k), ChunkEnd(text, start(k)))]

\* sep.join(chunks)
RECURSIVE JoinRange(_, _, _, _)
JoinRange(sep, chunks, lo, hi) ==
    IF lo > hi THEN <<>>
    ELSE IF lo = hi THEN chunks[lo]
    ELSE LET mid == (lo + hi) \div 2
         IN  JoinRange(sep, chunks, lo, mid) \o sep \o JoinRange(sep, chunks, mid + 1, hi)
Join(sep, chunks) == JoinRange(sep, chunks, 1, Len(chunks))

\* text.strip()
RECURSIVE LStrip(_)
LStrip(text) ==
    IF text # <<>> /\ Head(text) \in PyWhitespace THEN LStrip(Tail(text)) ELSE text
RECURSIVE RStrip(_)
RStrip(text) ==
    IF text # <<>> /\ text[Len(text)] \in PyWhitespace
    THEN RStrip(SubSeq(text, 1, Len(text) - 1)) ELSE text
Strip(text) == RStrip(LStrip(text))

\* The text post_process.normalize hands to orjson.loads.
Collapse(text) == Strip(Join(<<" ">>, Split(ReplaceNewlines(text))))

\* post_process.normalize: the parsed document, {} when decoding fails.
normalize(text) ==
    LET r == Loads(Collapse(text))
    IN  IF r.ok THEN r.val ELSE EmptyDict

\* ------------------------------------------------------------------------
\* post_process
\* ------------------------------------------------------------------------
\* A Python dict keyed by arbitrary hashable values: ks[n] maps to vs[n].
EmptyMapping == [ks |-> <<>>, vs |-> <<>>]
MapHas(m, k) == \E n \in 1..Len(m.ks) : m.ks[n] = k
MapGet(m, k) == m.vs[CHOOSE n \in 1..Len(m.ks) : m.ks[n] = k]
\* dict.setdefault: a key already present keeps its value.
MapSetDefault(m, k, v) ==
    IF MapHas(m, k) THEN m ELSE [ks |-> Append(m.ks, k), vs |-> Append(m.vs, v)]
MapSet(m, k, v) ==
    IF MapHas(m, k)
    THEN [ks |-> m.ks, vs |-> [n \in 1..Len(m.vs) |-> IF m.ks[n] = k THEN v ELSE m.vs[n]]]
    ELSE [ks |-> Append(m.ks, k), vs |-> Append(m.vs, v)]
KeySet(m) == {m.ks[n] : n \in 1..Len(m.ks)}

\* What a function call ends with: a returned value, or a raised exception.
Return(v) == [raised |-> "", value |-> v]
Raise(exc) == [raised |-> exc, value |-> EmptyMapping]

Hashable(v) == v.t \in {"str", "num", "null"}
Iterable(v) == v.t \in {"arr", "obj", "str"}
\* iter(v): the elements of a list, the keys of a dict, the characters of a str.
Iter(v) ==
    IF v.t = "arr" THEN v.items
    ELSE IF v.t = "obj" THEN [n \in 1..Len(v.keys) |-> Str(v.keys[n])]
    ELSE [n \in 1..Len(v.s) |-> Str(<<v.s[n]>>)]

\* {model["name"]: model for model in models}, from element n on.
RECURSIVE Comprehension(_, _, _)
Comprehension(models, n, acc) ==
    IF n > Len(models) THEN Return(acc)
    ELSE LET model == models[n]
         IN  IF model.t # "obj" THEN Raise("TypeError")
             ELSE IF ~HasKey(model, <<"name">>) THEN Raise("KeyError")
             ELSE IF ~Hashable(DictGet(model, <<"name">>)) THEN Raise("TypeError")
             ELSE Comprehension(models, n + 1,
                                MapSet(acc, DictGet(model, <<"name">>), model))

\* generate.get("replies")[-1]
LastReply(generate) == generate.replies[Len(generate.replies)]
\* The reply post_process reads: generate.get("replies")[0].
FirstReply(generate) == generate.replies[1]

post_process(generate) ==
    IF generate.replies = <<>> THEN Raise("IndexError")
    ELSE LET normalized == normalize(FirstReply(generate))
         IN  IF normalized.t # "obj" THEN Raise("TypeError")
             ELSE IF ~HasKey(normalized, <<"models">>) THEN Raise("KeyError")
             ELSE LET models == DictGet(normalized, <<"models">>)
                  IN  IF ~Iterable(models) THEN Raise("TypeError")
                      ELSE Comprehension(Iter(models), 1, EmptyMapping)

\* ------------------------------------------------------------------------
\* picked_models
\* ------------------------------------------------------------------------
Range(seq) == {seq[n] : n \in 1..Len(seq)}

extract(model) ==
    [name |-> model.name, columns |-> model.columns, properties |-> model.properties]

\* [extract(model) for model in models], the filter left out.
SelectAll(models, selected_models) == [n \in 1..Len(models) |-> extract(models[n])]
\* The models looked up name by name, in the order of the selection.
RECURSIVE SelectByName(_, _)
SelectByName(models, selected_models) ==
    IF selected_models = <<>> THEN <<>>
    ELSE LET hits == {n \in 1..Len(models) : models[n].name = Head(selected_models)}
         IN  (IF hits = {} THEN <<>>
              ELSE <<extract(models[CHOOSE n \in hits : \A m \in hits : n <= m])>>)
             \o SelectByName(models, Tail(selected_models))
\* [extract(model) for model in models if model["name"] in selected_models]
RECURSIVE SelectModels(_, _)
SelectModels(models, selected_models) ==
    IF models = <<>> THEN <<>>
    ELSE IF Head(models).name \in Range(selected_models)
         THEN <<extract(Head(models))>> \o SelectModels(Tail(models), selected_models)
         ELSE SelectModels(Tail(models), selected_models)

picked_models(mdl, selected_models) == SelectModels(mdl.models, selected_models)

\* ------------------------------------------------------------------------
\* prompt: PromptBuilder(template=user_prompt_template).run(...)
\* ------------------------------------------------------------------------
\* str() of the values the template interpolates.
ReprStr(s) == <<"'", s, "'">>
ReprBool(b) == IF b THEN <<"True">> ELSE <<"False">>
ReprProperties(p) ==
    <<"{">> \o Join(<<",", " ">>,
                    [n \in 1..Len(p) |-> ReprStr(p[n][1]) \o <<":", " ">> \o ReprStr(p[n][2])])
            \o <<"}">>
ReprColumn(c) ==
    <<"{">> \o ReprStr("name") \o <<":", " ">> \o ReprStr(c.name) \o <<",", " ">>
            \o ReprStr("type") \o <<":", " ">> \o ReprStr(c.type) \o <<",", " ">>
            \o ReprStr("notNull") \o <<":", " ">> \o ReprBool(c.notNull) \o <<",", " ">>
            \o ReprStr("properties") \o <<":", " ">> \o ReprProperties(c.properties)
            \o <<"}">>
ReprColumns(cs) ==
    <<"[">> \o Join(<<",", " ">>, [n \in 1..Len(cs) |-> ReprColumn(cs[n])]) \o <<"]">>
ReprModel(m) ==
    <<"{">> \o ReprStr("name") \o <<":", " ">> \o ReprStr(m.name) \o <<",", " ">>
            \o ReprStr("columns") \o <<":", " ">> \o ReprColumns(m.columns) \o <<",", " ">>
            \o ReprStr("properties") \o <<":", " ">> \o ReprProperties(m.properties)
            \o <<"}">>
ReprModels(ms) ==
    <<"[">> \o Join(<<",", " ">>, [n \in 1..Len(ms) |-> ReprModel(ms[n])]) \o <<"]">>

\* The template, as literal text and the two expressions it interpolates.
user_prompt_template ==
    << <<"\n", "\n", "###", " ", "Input", "\n", "User's", " ", "prompt:", " ">>,
       "user_prompt",
       <<"\n", "Picked", " ", "models:", " ">>,
       "picked_models",
       <<"\n", "\n", "Please", " ", "provide", " ", "a", " ", "brief", " ", "description.", "\n">> >>

system_prompt == <<"I", " ", "have", " ", "a", " ", "data", " ", "model">>

\* Jinja2 renders the template and drops its single trailing newline.
Render(template, picked, user_prompt) ==
    LET whole == template[1] \o user_prompt \o template[3] \o ReprModels(picked) \o template[5]
    IN  IF whole # <<>> /\ whole[Len(whole)] = "\n"
        THEN SubSeq(whole, 1, Len(whole) - 1) ELSE whole

prompt(picked, user_prompt, prompt_builder) ==
    [prompt |-> Render(prompt_builder, picked, user_prompt)]

\* ------------------------------------------------------------------------
\* Inputs of an invocation: run(user_prompt, selected_models, mdl)
\* ------------------------------------------------------------------------
SeqsUpTo(S, n) == UNION {[1..k -> S] : k \in 0..n}

Column(name, type, notNull) ==
    [name |-> name, type |-> type, notNull |-> notNull, properties |-> <<>>]

OrdersModel ==
    [name |-> "orders",
     columns |-> <<Column("id", "INTEGER", TRUE), Column("customer_id", "INTEGER", FALSE)>>,
     properties |-> <<>>, primaryKey |-> "id"]
\* A second entry of the schema carrying the name orders.
OrdersView ==
    [name |-> "orders", columns |-> <<Column("total", "DOUBLE", FALSE)>>,
     properties |-> << <<"displayName", "Orders">> >>, primaryKey |-> ""]
CustomersModel ==
    [name |-> "customers", columns |-> <<Column("id", "INTEGER", TRUE)>>,
     properties |-> << <<"displayName", "Customers">> >>, primaryKey |-> "id"]
ProductsModel ==
    [name |-> "products", columns |-> <<>>, properties |-> <<>>, primaryKey |-> "sku"]

ModelPool == {OrdersModel, OrdersView, CustomersModel, ProductsModel}
SelectableNames == {"orders", "customers", "products", "absent"}
UserPrompts ==
    { <<"Analyze", " ", "customer", " ", "behavior">>,
      <<"Never", " ", "mention", " ", "products">> }

Schemas == {[models |-> ms] : ms \in SeqsUpTo(ModelPool, MaxSchema)}
Selections == SeqsUpTo(SelectableNames, MaxSel)
RunInputs ==
    [user_prompt : UserPrompts, selected_models : Selections, mdl : Schemas]

\* The invocations the pipeline as a whole is driven with.
ScenarioInput ==
    [user_prompt |-> <<"Analyze", " ", "customer", " ", "behavior">>,
     selected_models |-> <<"orders", "customers">>,
     mdl |-> [models |-> <<OrdersModel, CustomersModel, ProductsModel>>]]
OtherInput ==
    [user_prompt |-> <<"Never", " ", "mention", " ", "products">>,
     selected_models |-> <<"products", "absent">>,
     mdl |-> [models |-> <<ProductsModel, OrdersModel>>]]
PipelineInputs == {ScenarioInput, OtherInput}

NoInput == [user_prompt |-> <<>>, selected_models |-> <<>>, mdl |-> [models |-> <<>>]]

\* ------------------------------------------------------------------------
\* Replies of the generator: generator.run(prompt=...)
\* ------------------------------------------------------------------------
\* A serialiser of documents; ws is the whitespace it puts between tokens.
RECURSIVE Dumps(_, _)
DumpsString(s) == <<QUOTE>> \o s \o <<QUOTE>>
Dumps(v, ws) ==
    IF v.t = "str" THEN DumpsString(v.s)
    ELSE IF v.t = "num" THEN v.s
    ELSE IF v.t = "null" THEN <<"null">>
    ELSE IF v.t = "arr"
    THEN <<"[">> \o ws
         \o Join(<<",">> \o ws, [n \in 1..Len(v.items) |-> Dumps(v.items[n], ws)])
         \o ws \o <<"]">>
    ELSE <<"{">> \o ws
         \o Join(<<",">> \o ws,
                 [n \in 1..Len(v.keys) |->
                     DumpsString(v.keys[n]) \o <<":">> \o ws \o Dumps(v.items[n], ws)])
         \o ws \o <<"}">>

Compact == <<>>
Indented == <<"\n", " ", " ">>

Description(d) == Obj(<< <<"description">> >>, <<Str(d)>>)
Entity(name, d) ==
    Obj(<< <<"name">>, <<"properties">> >>, <<Str(name), Description(d)>>)
ModelsDoc(elements) == Obj(<< <<"models">> >>, <<Arr(elements)>>)

OrdersEntity == Entity(<<"orders">>, <<"d1">>)
\* A description holding a run of two spaces.
OrdersSpaced == Entity(<<"orders">>, <<"all", " ", " ", "orders">>)
CustomersEntity == Entity(<<"customers">>, <<"d2">>)
Nameless == Obj(<< <<"properties">> >>, <<Description(<<"d3">>)>>)
ListNamed == Obj(<< <<"name">> >>, <<Arr(<<Str(<<"orders">>)>>)>>)
Bare == Str(<<"orders">>)
ReplyElements ==
    {OrdersEntity, OrdersSpaced, CustomersEntity, Nameless, ListNamed, Bare}

ModelsDocs == {ModelsDoc(es) : es \in SeqsUpTo(ReplyElements, MaxModels)}
OtherDocs ==
    { EmptyDict,
      Arr(<<OrdersEntity>>),
      Obj(<< <<"models">> >>, <<EmptyDict>>),
      Obj(<< <<"models">> >>, <<OrdersEntity>>),
      Obj(<< <<"models">> >>, <<Null>>),
      Obj(<< <<"models">> >>, <<Str(<<>>)>>),
      Obj(<< <<"models">> >>, <<Str(<<"orders">>)>>),
      Obj(<< <<"entities">> >>, <<Arr(<<OrdersEntity>>)>>),
      Str(<<"orders">>),
      Num("1"),
      Null }
Documents == ModelsDocs \cup OtherDocs

ExampleText == Dumps(ModelsDoc(<<OrdersEntity>>), Compact)
Truncated == {SubSeq(ExampleText, 1, k) : k \in 1..(Len(ExampleText) - 1)}
\* Replies that are no JSON document: empty, plain prose, a fenced code block
\* (the fence written ~~~), two documents in a row.
Prose ==
    { <<>>,
      <<"Sorry", ",", " ", "I", " ", "cannot", " ", "help">>,
      <<"~~~json", "\n">> \o ExampleText \o <<"\n", "~~~">>,
      ExampleText \o <<" ">> \o ExampleText }
\* A raw line break inside a string.
BrokenString ==
    Dumps(ModelsDoc(<<Entity(<<"orders">>, <<"first", "\n", "second">>)>>), Compact)

ReplyTexts ==
    {Dumps(d, ws) : d \in Documents, ws \in {Compact, Indented}}
        \cup Truncated \cup Prose \cup {BrokenString}

\* Candidates a reply envelope may hold after its first.
FurtherTexts == {ExampleText}
Tails == SeqsUpTo(FurtherTexts, MaxReplies - 1)
Envelopes ==
    {[replies |-> <<>>]} \cup {[replies |-> <<t>> \o tail] : t \in ReplyTexts, tail \in Tails}
\* The envelope holding the first candidate of e and nothing else.
Shortest(e) ==
    IF e.replies = <<>> THEN {e} ELSE {[replies |-> <<e.replies[1]>>]}

PipelineEnvelopes ==
    { [replies |-> <<>>],
      [replies |-> <<Dumps(ModelsDoc(<<OrdersEntity, CustomersEntity>>), Indented)>>],
      [replies |-> <<Dumps(ModelsDoc(<<>>), Compact), ExampleText>>],
      [replies |-> <<SubSeq(ExampleText, 1, 9)>>],
      [replies |-> <<Dumps(Arr(<<OrdersEntity>>), Compact)>>] }

\* ------------------------------------------------------------------------
\* SemanticsDescription: one configured instance, NumInv invocations of run
\* ------------------------------------------------------------------------
VARIABLES
    components,   \* self._components: prompt_builder, generator (shared)
    status,       \* per invocation: CONFIGURED, RUNNING, AWAITING, COMPLETED, RAISED
    inputs,       \* per invocation: the inputs dictionary handed to the driver
    given,        \* per invocation: the arguments its caller passed to run
    done,         \* per invocation: the nodes the driver has computed
    trace,        \* per invocation: the nodes in the order they were started
    pickedOut,    \* per invocation: output of node picked_models
    promptOut,    \* per invocation: output of node prompt
    sent,         \* per invocation: the prompt text handed to generator.run
    generateOut,  \* per invocation: output of node generate (the reply envelope)
    postOut,      \* per invocation: output of node post_process
    err,          \* per invocation: the exception that left run, "" if none
    ret           \* per invocation: the value run returned to its caller

vars == <<components, status, inputs, given, done, trace, pickedOut, promptOut,
          sent, generateOut, postOut, err, ret>>

Nodes == {"picked_models", "prompt", "generate", "post_process"}

\* generate declared without its prompt parameter.
RequiresNoPrompt(node) ==
    IF node = "prompt" THEN {"picked_models"}
    ELSE IF node = "post_process" THEN {"generate"}
    ELSE {}
\* The nodes a node takes as parameters (the other parameters are inputs).
Requires(node) ==
    IF node = "prompt" THEN {"picked_models"}
    ELSE IF node = "generate" THEN {"prompt"}
    ELSE IF node = "post_process" THEN {"generate"}
    ELSE {}

\* self._components, as __init__ builds it.
Configured == [prompt_builder |-> user_prompt_template, generator |-> system_prompt]

\* Inputs kept in one slot shared by all invocations.
InputOfShared(i, name) == inputs[1][name]
\* The input the driver passes to a node of invocation i under a name.
InputOf(i, name) == inputs[i][name]

\* A result builder handing back the one requested output itself.
SingleResult(final_var, output) == output
\* base.DictResult(): the requested outputs, keyed by node name.
DictResult(final_var, output) == [ks |-> <<Str(<<final_var>>)>>, vs |-> <<output>>]
NoResult == [ks |-> <<>>, vs |-> <<>>]

\* The driver may run a node once the nodes it requires are computed.
Ready(i, node) ==
    /\ status[i] = "RUNNING"
    /\ node \notin done[i]
    /\ Requires(node) \subseteq done[i]

NotInvoked ==
    /\ status = [i \in Inv |-> "CONFIGURED"]
    /\ inputs = [i \in Inv |-> NoInput]
    /\ given = [i \in Inv |-> NoInput]
    /\ done = [i \in Inv |-> {}]
    /\ trace = [i \in Inv |-> <<>>]
    /\ pickedOut = [i \in Inv |-> <<>>]
    /\ promptOut = [i \in Inv |-> [prompt |-> <<>>]]
    /\ sent = [i \in Inv |-> <<>>]
    /\ generateOut = [i \in Inv |-> [replies |-> <<>>]]
    /\ postOut = [i \in Inv |-> EmptyMapping]
    /\ err = [i \in Inv |-> ""]
    /\ ret = [i \in Inv |-> NoResult]

Init ==
    /\ components = Configured
    /\ NotInvoked

\* run(user_prompt, selected_models, mdl): hand the inputs to the driver.
Run(i) ==
    /\ status[i] = "CONFIGURED"
    /\ \E inp \in PipelineInputs :
          /\ inputs' = [inputs EXCEPT ![i] = inp]
          /\ given' = [given EXCEPT ![i] = inp]
    /\ status' = [status EXCEPT ![i] = "RUNNING"]
    /\ UNCHANGED <<components, done, trace, pickedOut, promptOut, sent,
                   generateOut, postOut, err, ret>>

PickedModels(i) ==
    /\ Ready(i, "picked_models")
    /\ pickedOut' = [pickedOut EXCEPT
                       ![i] = picked_models(InputOf(i, "mdl"), InputOf(i, "selected_models"))]
    /\ done' = [done EXCEPT ![i] = @ \cup {"picked_models"}]
    /\ trace' = [trace EXCEPT ![i] = Append(@, "picked_models")]
    /\ UNCHANGED <<components, status, inputs, given, promptOut, sent,
                   generateOut, postOut, err, ret>>

Prompt(i) ==
    /\ Ready(i, "prompt")
    /\ promptOut' = [promptOut EXCEPT
                       ![i] = prompt(pickedOut[i], InputOf(i, "user_prompt"),
                                     components.prompt_builder)]
    /\ done' = [done EXCEPT ![i] = @ \cup {"prompt"}]
    /\ trace' = [trace EXCEPT ![i] = Append(@, "prompt")]
    /\ UNCHANGED <<components, status, inputs, given, pickedOut, sent,
                   generateOut, postOut, err, ret>>

\* generate: generator.run(prompt=prompt.get("prompt")) is issued and awaited.
GenerateCall(i) ==
    /\ Ready(i, "generate")
    /\ sent' = [sent EXCEPT ![i] = promptOut[i].prompt]
    /\ status' = [status EXCEPT ![i] = "AWAITING"]
    /\ trace' = [trace EXCEPT ![i] = Append(@, "generate")]
    /\ UNCHANGED <<components, inputs, given, done, pickedOut, promptOut,
                   generateOut, postOut, err, ret>>

\* The awaited call returns a reply envelope.
GenerateReturn(i) ==
    /\ status[i] = "AWAITING"
    /\ \E envelope \in PipelineEnvelopes :
          generateOut' = [generateOut EXCEPT ![i] = envelope]
    /\ done' = [done EXCEPT ![i] = @ \cup {"generate"}]
    /\ status' = [status EXCEPT ![i] = "RUNNING"]
    /\ UNCHANGED <<components, inputs, given, trace, pickedOut, promptOut, sent,
                   postOut, err, ret>>

\* The failure caught in generate and replaced by an envelope without replies.
GenerateSwallow(i) ==
    /\ status[i] = "AWAITING"
    /\ status' = [status EXCEPT ![i] = "RUNNING"]
    /\ done' = [done EXCEPT ![i] = @ \cup {"generate"}]
    /\ err' = [err EXCEPT ![i] = "ProviderError"]
    /\ UNCHANGED <<components, inputs, given, trace, pickedOut, promptOut,
                   sent, generateOut, postOut, ret>>
\* The awaited call fails: the exception leaves generate, the driver and run.
GenerateRaise(i) ==
    /\ status[i] = "AWAITING"
    /\ status' = [status EXCEPT ![i] = "RAISED"]
    /\ err' = [err EXCEPT ![i] = "ProviderError"]
    /\ UNCHANGED <<components, inputs, given, done, trace, pickedOut, promptOut,
                   sent, generateOut, postOut, ret>>

\* post_process, and the return of execute(["post_process"]) through run.
PostProcess(i) ==
    /\ Ready(i, "post_process")
    /\ trace' = [trace EXCEPT ![i] = Append(@, "post_process")]
    /\ LET outcome == post_process(generateOut[i])
       IN  IF outcome.raised = ""
           THEN /\ postOut' = [postOut EXCEPT ![i] = outcome.value]
                /\ done' = [done EXCEPT ![i] = @ \cup {"post_process"}]
                /\ ret' = [ret EXCEPT ![i] = DictResult("post_process", outcome.value)]
                /\ status' = [status EXCEPT ![i] = "COMPLETED"]
                /\ UNCHANGED err
           ELSE /\ err' = [err EXCEPT ![i] = outcome.raised]
                /\ status' = [status EXCEPT ![i] = "RAISED"]
                /\ UNCHANGED <<postOut, done, ret>>
    /\ UNCHANGED <<components, inputs, given, pickedOut, promptOut, sent, generateOut>>

Next ==
    \E i \in Inv :
        \/ Run(i)
        \/ PickedModels(i)
        \/ Prompt(i)
        \/ GenerateCall(i)
        \/ GenerateReturn(i)
        \/ GenerateRaise(i)
        \/ PostProcess(i)

Spec == Init /\ [][Next]_vars

\* ------------------------------------------------------------------------
\* The selection and composition stages over all bounded inputs
\* ------------------------------------------------------------------------
InitSelect ==
    /\ components = Configured
    /\ \E inp \in RunInputs :
          /\ inputs = [i \in Inv |-> IF i = 1 THEN inp ELSE NoInput]
          /\ given = inputs
    /\ status = [i \in Inv |-> IF i = 1 THEN "RUNNING" ELSE "CONFIGURED"]
    /\ done = [i \in Inv |-> {}]
    /\ trace = [i \in Inv |-> <<>>]
    /\ pickedOut = [i \in Inv |-> <<>>]
    /\ promptOut = [i \in Inv |-> [prompt |-> <<>>]]
    /\ sent = [i \in Inv |-> <<>>]
    /\ generateOut = [i \in Inv |-> [replies |-> <<>>]]
    /\ postOut = [i \in Inv |-> EmptyMapping]
    /\ err = [i \in Inv |-> ""]
    /\ ret = [i \in Inv |-> NoResult]

NextSelect == \E i \in Inv : PickedModels(i) \/ Prompt(i) \/ GenerateCall(i)

SpecSelect == InitSelect /\ [][NextSelect]_vars

\* ------------------------------------------------------------------------
\* The parse stage over all bounded reply envelopes: invocations 1 and 2 have
\* received their envelopes and are about to run post_process
\* ------------------------------------------------------------------------
Parsing == {i \in Inv : i <= 2}
AtParse(inp) ==
    LET picked == picked_models(inp.mdl, inp.selected_models)
    IN  /\ inputs = [i \in Inv |-> IF i \in Parsing THEN inp ELSE NoInput]
        /\ given = inputs
        /\ status = [i \in Inv |-> IF i \in Parsing THEN "RUNNING" ELSE "CONFIGURED"]
        /\ done = [i \in Inv |->
                     IF i \in Parsing THEN {"picked_models", "prompt", "generate"} ELSE {}]
        /\ trace = [i \in Inv |->
                      IF i \in Parsing THEN <<"picked_models", "prompt", "generate">> ELSE <<>>]
        /\ pickedOut = [i \in Inv |-> IF i \in Parsing THEN picked ELSE <<>>]
        /\ promptOut = [i \in Inv |->
                          IF i \in Parsing
                          THEN prompt(picked, inp.user_prompt, Configured.prompt_builder)
                          ELSE [prompt |-> <<>>]]
        /\ sent = [i \in Inv |-> promptOut[i].prompt]

InitPost ==
    /\ components = Configured
    /\ AtParse(ScenarioInput)
    /\ \E first \in Envelopes :
          \E second \in Shortest(first) \cup {[replies |-> <<ExampleText>>]} :
              generateOut = [i \in Inv |->
                               IF i = 1 THEN first
                               ELSE IF i = 2 THEN second ELSE [replies |-> <<>>]]
    /\ postOut = [i \in Inv |-> EmptyMapping]
    /\ err = [i \in Inv |-> ""]
    /\ ret = [i \in Inv |-> NoResult]

NextPost == \E i \in Inv : PostProcess(i)

SpecPost == InitPost /\ [][NextPost]_vars

\* ------------------------------------------------------------------------
\* Properties
\* ------------------------------------------------------------------------
Started(i, node) == \E n \in 1..Len(trace[i]) : trace[i][n] = node
Ended(i) == status[i] \in {"COMPLETED", "RAISED"}
StageOrder == <<"picked_models", "prompt", "generate", "post_process">>

\* piece occurs in text as a contiguous run of atoms.
Embeds(text, piece) ==
    \E at \in 0..(Len(text) - Len(piece)) : SubSeq(text, at + 1, at + Len(piece)) = piece

\* The models list of a document, when the document is an object holding a
\* list under "models".
HasModelsList(doc) ==
    /\ doc.t = "obj"
    /\ HasKey(doc, <<"models">>)
    /\ DictGet(doc, <<"models">>).t = "arr"
ModelsList(doc) == DictGet(doc, <<"models">>).items
Named(element) == element.t = "obj" /\ HasKey(element, <<"name">>)
NamesOf(elements) ==
    {DictGet(elements[n], <<"name">>) : n \in {m \in 1..Len(elements) : Named(elements[m])}}

\* C1: for every reply envelope whose first candidate is not valid JSON,
\* post_process returns the empty mapping and no exception escapes it.
C1_InvalidJsonGivesEmptyMapping ==
    \A i \in Inv :
        (/\ Started(i, "post_process")
         /\ generateOut[i].replies # <<>>
         /\ ~Loads(FirstReply(generateOut[i])).ok)
        => (status[i] = "COMPLETED" /\ err[i] = "" /\ postOut[i] = EmptyMapping)

\* C2: picked_models returns, without raising, exactly the entities of the
\* schema whose name is in the selection, in the schema's order and no others,
\* each reduced to name, columns and properties.
C2_PickedModelsFilters ==
    \A i \in Inv :
        "picked_models" \in done[i] =>
            LET models == given[i].mdl.models
                chosen == {n \in 1..Len(models) :
                              \E k \in 1..Len(given[i].selected_models) :
                                  given[i].selected_models[k] = models[n].name}
                nth(k) == CHOOSE n \in chosen : Cardinality({m \in chosen : m <= n}) = k
            IN  /\ err[i] = ""
                /\ status[i] # "RAISED"
                /\ Len(pickedOut[i]) = Cardinality(chosen)
                /\ \A k \in 1..Len(pickedOut[i]) :
                      pickedOut[i][k] = [name |-> models[nth(k)].name,
                                         columns |-> models[nth(k)].columns,
                                         properties |-> models[nth(k)].properties]

C2_Witness ==
    /\ "picked_models" \in done[1]
    /\ Len(pickedOut[1]) = 2
    /\ Len(given[1].mdl.models) = 3
    /\ given[1].mdl.models[2].name \notin Range(given[1].selected_models)
    /\ "absent" \in Range(given[1].selected_models)

\* C3 as stated: whenever the first candidate parses as a JSON document with a
\* list under "models", the result's key set is exactly the set of "name"
\* values of that list's elements and each key maps to the element carrying it.
C3_KeysAreNamesOfReply ==
    \A i \in Inv :
        (/\ Started(i, "post_process")
         /\ generateOut[i].replies # <<>>
         /\ Loads(FirstReply(generateOut[i])).ok
         /\ HasModelsList(Loads(FirstReply(generateOut[i])).val))
        => LET elements == ModelsList(Loads(FirstReply(generateOut[i])).val)
           IN  /\ status[i] = "COMPLETED"
               /\ KeySet(postOut[i]) = NamesOf(elements)
               /\ \A k \in KeySet(postOut[i]) :
                     \E n \in 1..Len(elements) :
                         /\ Named(elements[n])
                         /\ DictGet(elements[n], <<"name">>) = k
                         /\ MapGet(postOut[i], k) = elements[n]

\* C3 as amended: whenever the first candidate, after its newlines are
\* replaced by spaces and every run of whitespace (also inside string values)
\* is collapsed to one space, parses as a JSON object with a list under
\* "models" whose elements are all objects with a string "name", the result's
\* key set is exactly the set of "name" values of that collapsed document's
\* list elements and each key maps to the last element carrying that name.
C3_KeysAreNamesOfCollapsedReply ==
    \A i \in Inv :
        (/\ Started(i, "post_process")
         /\ generateOut[i].replies # <<>>
         /\ Loads(Collapse(FirstReply(generateOut[i]))).ok
         /\ HasModelsList(Loads(Collapse(FirstReply(generateOut[i]))).val)
         /\ LET elements == ModelsList(Loads(Collapse(FirstReply(generateOut[i]))).val)
            IN  \A n \in 1..Len(elements) :
                   Named(elements[n]) /\ DictGet(elements[n], <<"name">>).t = "str")
        => LET elements == ModelsList(Loads(Collapse(FirstReply(generateOut[i]))).val)
               last(k) == CHOOSE n \in 1..Len(elements) :
                             /\ DictGet(elements[n], <<"name">>) = k
                             /\ \A m \in (n + 1)..Len(elements) :
                                   DictGet(elements[m], <<"name">>) # k
           IN  /\ status[i] = "COMPLETED"
               /\ err[i] = ""
               /\ KeySet(postOut[i]) = NamesOf(elements)
               /\ \A k \in KeySet(postOut[i]) : MapGet(postOut[i], k) = elements[last(k)]

\* A completed parse of two elements carrying one name, the reply differing
\* from its collapsed form inside a string.
C3_Witness ==
    /\ status[1] = "COMPLETED"
    /\ Len(postOut[1].ks) = 1
    /\ Loads(FirstReply(generateOut[1])).ok
    /\ HasModelsList(Loads(FirstReply(generateOut[1])).val)
    /\ Len(ModelsList(Loads(FirstReply(generateOut[1])).val)) = 2
    /\ Loads(FirstReply(generateOut[1])).val
          # Loads(Collapse(FirstReply(generateOut[1]))).val

\* C4: if the generator call of an invocation fails, the failure leaves run
\* uncaught: the invocation has no result mapping, parsed or empty, and its
\* parse stage is never executed.
C4_ProviderFailurePropagates ==
    \A i \in Inv :
        err[i] = "ProviderError" =>
            /\ status[i] = "RAISED"
            /\ ret[i] = NoResult
            /\ "generate" \notin done[i]
            /\ "post_process" \notin done[i]
            /\ ~Started(i, "post_process")

C4_Witness ==
    /\ err[1] = "ProviderError"
    /\ status[2] = "COMPLETED"

\* C5: for interleaved invocations on one instance, each invocation's outgoing
\* prompt and result depend only on its own arguments and its own reply, and no
\* invocation changes the shared components or its input schema.
C5_InvocationsIndependent ==
    /\ components = Configured
    /\ \A i \in Inv :
          LET own == picked_models(given[i].mdl, given[i].selected_models)
              text == prompt(own, given[i].user_prompt, Configured.prompt_builder)
          IN  /\ inputs[i] = given[i]
              /\ "picked_models" \in done[i] => pickedOut[i] = own
              /\ "prompt" \in done[i] => promptOut[i] = text
              /\ Started(i, "generate") => sent[i] = text.prompt
              /\ status[i] = "COMPLETED" =>
                    /\ post_process(generateOut[i]).raised = ""
                    /\ postOut[i] = post_process(generateOut[i]).value
                    /\ ret[i].vs = <<postOut[i]>>
              /\ (status[i] = "RAISED" /\ err[i] # "ProviderError") =>
                    err[i] = post_process(generateOut[i]).raised

\* Invocation 1 is suspended in its generator call while invocation 2, run
\* with other arguments, has completed.
C5_Witness ==
    /\ status[1] = "AWAITING"
    /\ status[2] = "COMPLETED"
    /\ given[1] # given[2]
    /\ postOut[2] # EmptyMapping

\* C6: the prompt text handed to the generator embeds the entity data of
\* exactly the schema entities named in selected_models and of no other entity
\* of mdl.
C6_PromptEmbedsOnlySelected ==
    \A i \in Inv :
        Started(i, "generate") =>
            \A n \in 1..Len(given[i].mdl.models) :
                LET model == given[i].mdl.models[n]
                    data == ReprModel([name |-> model.name, columns |-> model.columns,
                                       properties |-> model.properties])
                IN  Embeds(sent[i], data) <=> model.name \in Range(given[i].selected_models)

C6_Witness ==
    /\ Started(1, "generate")
    /\ given[1].selected_models = <<"orders", "customers">>
    /\ given[1].mdl.models = <<OrdersModel, CustomersModel, ProductsModel>>
    /\ ~Embeds(sent[1], ReprStr("products"))

\* C7: every invocation whose generation call returned an envelope with at
\* least one candidate ends COMPLETED, with the parsed or the empty mapping;
\* only a failure of the generation call ends an invocation otherwise.
C7_ReplyAlwaysCompletes ==
    \A i \in Inv :
        (Ended(i) /\ "generate" \in done[i] /\ generateOut[i].replies # <<>>)
            => (status[i] = "COMPLETED" /\ err[i] = "")

\* C8 as stated: the value run returns on a completed invocation is itself
\* the mapping from model name to model record: its keys are the parsed model
\* names.
C8_ReturnsMappingItself ==
    \A i \in Inv :
        status[i] = "COMPLETED" => KeySet(ret[i]) = KeySet(postOut[i])

\* C8 as amended: the value run returns on a completed invocation is a
\* mapping with the single key "post_process" (the requested stage), whose
\* value is the mapping from parsed model name to model record.
C8_ReturnsMappingUnderStageName ==
    \A i \in Inv :
        status[i] = "COMPLETED" =>
            /\ Len(ret[i].ks) = 1
            /\ ret[i].ks[1] = Str(<<"post_process">>)
            /\ ret[i].vs[1] = postOut[i]
            /\ postOut[i] = post_process(generateOut[i]).value

C8_Witness ==
    /\ status[1] = "COMPLETED"
    /\ KeySet(postOut[1]) = {Str(<<"orders">>), Str(<<"customers">>)}

\* C9: within one invocation the stages run in the order picked_models,
\* prompt, generate, post_process, each at most once and each only after its
\* predecessor has produced its output; the generator is called at most once
\* and never again after a provider failure or a parse failure.
C9_StagesInOrderOnce ==
    \A i \in Inv :
        /\ Len(trace[i]) <= Len(StageOrder)
        /\ trace[i] = SubSeq(StageOrder, 1, Len(trace[i]))
        /\ \A n \in 2..Len(trace[i]) : StageOrder[n - 1] \in done[i]
        /\ Ended(i) => ~(\E node \in Nodes : Ready(i, node)) /\ status[i] # "AWAITING"

\* One invocation ended by a provider failure, the other by a parse failure.
C9_Witness ==
    /\ status[1] = "RAISED" /\ err[1] = "ProviderError" /\ trace[1] = SubSeq(StageOrder, 1, 3)
    /\ status[2] = "RAISED" /\ err[2] = "KeyError" /\ trace[2] = StageOrder

\* C10: the outcome of post_process, returned mapping or raised error, is
\* determined by the first candidate alone: two envelopes with the same first
\* candidate give the same outcome whatever further candidates they hold.
C10_FirstCandidateDecides ==
    \A i \in Inv : \A j \in Inv :
        (/\ Started(i, "post_process") /\ Started(j, "post_process")
         /\ generateOut[i].replies # <<>> /\ generateOut[j].replies # <<>>
         /\ generateOut[i].replies[1] = generateOut[j].replies[1])
        => (status[i] = status[j] /\ err[i] = err[j] /\ postOut[i] = postOut[j])

\* Two envelopes with one first candidate, one of them holding a further
\* candidate that alone would parse to another result.
C10_Witness ==
    /\ status[1] = "RAISED" /\ status[2] = "RAISED"
    /\ Len(generateOut[1].replies) = 2
    /\ generateOut[1].replies[2] = ExampleText
    /\ generateOut[2].replies = <<generateOut[1].replies[1]>>

====
